---- MODULE Spec2Model ----
(***************************************************************************)
(* The per-frame simulation loop of the Space Invaders game (src/main.py,  *)
(* main) as a state machine.  One loop iteration is: validate_game_state,  *)
(* the pygame events of the frame (any number, each handled in order),     *)
(* then the simulation step guarded by `if not game_over`.  A pygame.QUIT  *)
(* event only ends the loop after the iteration it arrives in and touches  *)
(* no game state; the model follows the loop while it runs.                *)
(*                                                                         *)
(* The playfield is scaled down so that the reachable states can be        *)
(* enumerated: the geometry below keeps the order relations of the         *)
(* configured one (src/config.py, and the sprite sizes that                *)
(* src/create_assets.py writes) and each definition names the configured   *)
(* value it stands for.  Scores, lives, ENEMY_ROWS and ENEMY_SPEED keep    *)
(* their configured values.                                                *)
(***************************************************************************)
EXTENDS Integers, Sequences, FiniteSets, TLC

\* ------------------------------------------------------------ sprite sizes
\* main.py:185 player_img.get_size(); create_assets.py: player 13x8 scaled by 3 (39x24)
player_width == 1
player_height == 1
\* main.py:186 enemy_crab_img.get_size(); create_assets.py: crab 11x8 scaled by 3 (33x24)
enemy_width == 1
enemy_height == 1
\* main.py:187 bunker_img.get_size(); create_assets.py: bunker 20x16 scaled by 3 (60x48)
bunker_width == 1
bunker_height == 1
\* main.py:208 bullet_img.get_width()/get_height(); create_assets.py: laser 1x4 scaled by 3 (3x12)
bullet_width == 1
bullet_height == 1

\* ------------------------------------------------------------------ enemies
ENEMY_SPEED == 1
\* config.py:37 (10)
ENEMY_DROP_DISTANCE == 1
ENEMY_ROWS == 5
\* config.py:39 (11)
ENEMY_COLS == 2
\* config.py:40 (75)
ENEMY_START_X == 1
\* config.py:41 (100); at least bullet_height
ENEMY_START_Y == 1
\* config.py:42 (50); more than enemy_width + bullet_width
ENEMY_X_GAP == 3
\* config.py:43 (40); more than enemy_height + bullet_height
ENEMY_Y_GAP == 3
\* the number of drops a full grid survives: (400 - 260) / 10 = 14 as configured
FloorDrops == 3
\* config.py:44 (400 = 100 + 4 * 40 + 14 * 10)
ENEMY_GAME_OVER_Y ==
    ENEMY_START_Y + (ENEMY_ROWS - 1) * ENEMY_Y_GAP + FloorDrops * ENEMY_DROP_DISTANCE
ENEMY_SCORE_SQUID == 30
ENEMY_SCORE_CRAB == 20
ENEMY_SCORE_OCTOPUS == 10

\* ------------------------------------------------------------------ display
\* the room right of a fresh grid: 800 - (75 + 10 * 50 + 33) = 192 as configured
SweepRoom == 4
\* config.py:13 (800 = 75 + 10 * 50 + 33 + 192)
SCREEN_WIDTH ==
    ENEMY_START_X + (ENEMY_COLS - 1) * ENEMY_X_GAP + enemy_width + SweepRoom

\* ------------------------------------------------------------------ bunkers
\* config.py:60 (4)
BUNKER_COUNT == 1
\* faulty variant: the bunkers stand on the floor line, within the enemies' reach
BUNKER_Y_POSITION_AtFloorLine == ENEMY_GAME_OVER_Y

\* config.py:61 (450): below the lowest row an enemy can reach, 400 + 10 + 24,
\* by at least bullet_height
BUNKER_Y_POSITION ==
    ENEMY_GAME_OVER_Y + ENEMY_DROP_DISTANCE + enemy_height + bullet_height
\* config.py:62 (10)
BUNKER_HEALTH == 2

\* ------------------------------------------------------------------- bullet
\* config.py:54 (10); at most bullet_height
BULLET_SPEED == 1

\* ------------------------------------------------------------------- player
\* config.py:27 (4)
PLAYER_SPEED == 2
\* config.py:28 (370)
PLAYER_START_X == 2
\* config.py:29 (520): a bullet's first step from it ends below the bunkers (498)
PLAYER_START_Y == BUNKER_Y_POSITION + bunker_height + BULLET_SPEED
PLAYER_INITIAL_LIVES == 3
PLAYER_MAX_LIVES == 99
\* config.py:55 (480 = 520 - 4 * 10)
BULLET_START_Y == PLAYER_START_Y - 4 * BULLET_SPEED
\* config.py:14 (600): the player row fits above the bottom edge
SCREEN_HEIGHT == PLAYER_START_Y + player_height + 1

\* -------------------------------------------------------------------- score
\* config.py:67 (999999)
MAX_SCORE == 45
MIN_SCORE == 0

VARIABLES
    pc,               \* "frame": top of the while loop; "events": in the event loop
    game_over,        \* main.py:417
    player_x,         \* main.py:195
    player_y,         \* main.py:196
    player_x_change,  \* main.py:197
    lives,            \* main.py:198
    score_value,      \* main.py:201
    bullet_x,         \* main.py:205
    bullet_y,         \* main.py:206
    bullet_state,     \* main.py:207
    bullet_rect,      \* main.py:208
    enemies,          \* main.py:211
    bunkers           \* main.py:212

vars == <<pc, game_over, player_x, player_y, player_x_change, lives,
          score_value, bullet_x, bullet_y, bullet_state, bullet_rect, enemies,
          bunkers>>

\* ---------------------------------------------------------------- utilities
Min(a, b) == IF a <= b THEN a ELSE b

Max(a, b) == IF a >= b THEN a ELSE b

clamp(value, min_val, max_val) == Max(min_val, Min(value, max_val))

Rect(x, y, w, h) == [x |-> x, y |-> y, w |-> w, h |-> h]

\* rect.topleft = (x, y)
SetTopLeft(rect, x, y) == [rect EXCEPT !.x = x, !.y = y]

\* pygame.Rect.colliderect: the rectangles overlap on both axes; touching edges do not
is_collision(rect1, rect2) ==
    /\ rect1.x < rect2.x + rect2.w
    /\ rect2.x < rect1.x + rect1.w
    /\ rect1.y < rect2.y + rect2.h
    /\ rect2.y < rect1.y + rect1.h

\* ----------------------------------------------------------- entity creation
RowImg(row) ==
    IF row = 0 THEN "squid" ELSE IF row \in {1, 2} THEN "crab" ELSE "octopus"

\* faulty variant: row 2 falls through to the lowest tier (`row == 1` for `row in [1, 2]`)
RowScore_Row2Low(row) ==
    IF row = 0 THEN ENEMY_SCORE_SQUID
    ELSE IF row = 1 THEN ENEMY_SCORE_CRAB
    ELSE ENEMY_SCORE_OCTOPUS

RowScore(row) ==
    IF row = 0 THEN ENEMY_SCORE_SQUID
    ELSE IF row \in {1, 2} THEN ENEMY_SCORE_CRAB
    ELSE ENEMY_SCORE_OCTOPUS

\* faulty variant: the rows start in alternating directions
NewEnemy_AlternateRows(row, col) ==
    LET x == ENEMY_START_X + (col * ENEMY_X_GAP)
        y == ENEMY_START_Y + (row * ENEMY_Y_GAP)
    IN  [img |-> RowImg(row), x |-> x, y |-> y,
         x_change |-> IF row % 2 = 0 THEN ENEMY_SPEED ELSE -ENEMY_SPEED,
         score |-> RowScore(row), rect |-> Rect(x, y, enemy_width, enemy_height),
         row |-> row]

\* one cell of the grid; row and col are the loop variables of create_enemies
\* (row is kept in the record to name the tier the enemy was created in)
NewEnemy(row, col) ==
    LET x == ENEMY_START_X + (col * ENEMY_X_GAP)
        y == ENEMY_START_Y + (row * ENEMY_Y_GAP)
    IN  [img |-> RowImg(row), x |-> x, y |-> y, x_change |-> ENEMY_SPEED,
         score |-> RowScore(row), rect |-> Rect(x, y, enemy_width, enemy_height),
         row |-> row]

create_enemies ==
    [i \in 1..(ENEMY_ROWS * ENEMY_COLS) |->
        NewEnemy((i - 1) \div ENEMY_COLS, (i - 1) % ENEMY_COLS)]

create_bunkers ==
    LET gap == SCREEN_WIDTH \div (BUNKER_COUNT + 1)
    IN  [i \in 1..BUNKER_COUNT |->
            [rect |-> Rect(gap * i - (bunker_width \div 2), BUNKER_Y_POSITION,
                           bunker_width, bunker_height),
             health |-> BUNKER_HEALTH]]

\* ------------------------------------------------------------ initial state
Init ==
    /\ pc = "frame"
    /\ game_over = FALSE
    /\ player_x = PLAYER_START_X
    /\ player_y = PLAYER_START_Y
    /\ player_x_change = 0
    /\ lives = PLAYER_INITIAL_LIVES
    /\ score_value = 0
    /\ bullet_x = 0
    /\ bullet_y = BULLET_START_Y
    /\ bullet_state = "ready"
    /\ bullet_rect = Rect(0, 0, bullet_width, bullet_height)
    /\ enemies = create_enemies
    /\ bunkers = create_bunkers

\* ------------------------------------------------------ validate_game_state
\* faulty variant: the upper bound of the score is not enforced
ValidScore_NoUpperBound(s) == Max(MIN_SCORE, s)

ValidScore(s) == clamp(s, MIN_SCORE, MAX_SCORE)

ValidLives(l) == clamp(l, 0, PLAYER_MAX_LIVES)

validate_game_state ==
    /\ pc = "frame"
    /\ pc' = "events"
    /\ score_value' = ValidScore(score_value)
    /\ lives' = ValidLives(lives)
    /\ player_x' = clamp(player_x, 0, SCREEN_WIDTH - player_width)
    /\ player_y' = clamp(player_y, 0, SCREEN_HEIGHT - player_height)
    /\ bullet_x' = clamp(bullet_x, 0, SCREEN_WIDTH)
    /\ bullet_y' = clamp(bullet_y, -bullet_height, SCREEN_HEIGHT)
    /\ UNCHANGED <<game_over, player_x_change, bullet_state, bullet_rect, enemies,
                   bunkers>>

\* ------------------------------------------------------------------- events
\* KEYDOWN K_LEFT
KeyDownLeft ==
    /\ pc = "events"
    /\ player_x_change' = -PLAYER_SPEED
    /\ UNCHANGED <<pc, game_over, player_x, player_y, lives, score_value,
                   bullet_x, bullet_y, bullet_state, bullet_rect, enemies, bunkers>>

\* KEYDOWN K_RIGHT
KeyDownRight ==
    /\ pc = "events"
    /\ player_x_change' = PLAYER_SPEED
    /\ UNCHANGED <<pc, game_over, player_x, player_y, lives, score_value,
                   bullet_x, bullet_y, bullet_state, bullet_rect, enemies, bunkers>>

\* KEYUP K_LEFT or K_RIGHT
KeyUpMove ==
    /\ pc = "events"
    /\ player_x_change' = 0
    /\ UNCHANGED <<pc, game_over, player_x, player_y, lives, score_value,
                   bullet_x, bullet_y, bullet_state, bullet_rect, enemies, bunkers>>

\* faulty variant: the K_SPACE branch forgets the phase
CanFire_IgnorePhase == bullet_state = "ready"

\* faulty variant: the K_SPACE branch forgets the bullet's state
CanFire_IgnoreBullet == ~game_over

\* the guard of the K_SPACE branch
CanFire == bullet_state = "ready" /\ ~game_over

\* fire_bullet(x, y)
fire_bullet(x, y) ==
    LET bx == x + (player_width \div 2) - (bullet_width \div 2)
    IN  /\ bullet_state' = "fire"
        /\ bullet_x' = bx
        /\ bullet_y' = y
        /\ bullet_rect' = SetTopLeft(bullet_rect, bx, y)

\* KEYDOWN K_SPACE
KeyDownSpace ==
    /\ pc = "events"
    /\ IF CanFire
       THEN fire_bullet(player_x, player_y)
       ELSE UNCHANGED <<bullet_state, bullet_x, bullet_y, bullet_rect>>
    /\ UNCHANGED <<pc, game_over, player_x, player_y, player_x_change,
                   lives, score_value, enemies, bunkers>>

\* the guard of the K_r branch
CanReset == game_over

\* faulty variant: the bunkers are not rebuilt
reset_game_state_KeepsBunkers ==
    /\ player_x' = PLAYER_START_X
    /\ player_y' = PLAYER_START_Y
    /\ player_x_change' = 0
    /\ lives' = PLAYER_INITIAL_LIVES
    /\ score_value' = 0
    /\ bullet_state' = "ready"
    /\ bullet_y' = BULLET_START_Y
    /\ enemies' = create_enemies
    /\ bunkers' = bunkers

\* faulty variant: lives are refilled to the maximum instead of the initial count
reset_game_state_MaxLives ==
    /\ player_x' = PLAYER_START_X
    /\ player_y' = PLAYER_START_Y
    /\ player_x_change' = 0
    /\ lives' = PLAYER_MAX_LIVES
    /\ score_value' = 0
    /\ bullet_state' = "ready"
    /\ bullet_y' = BULLET_START_Y
    /\ enemies' = create_enemies
    /\ bunkers' = create_bunkers

\* reset_game_state()
reset_game_state ==
    /\ player_x' = PLAYER_START_X
    /\ player_y' = PLAYER_START_Y
    /\ player_x_change' = 0
    /\ lives' = PLAYER_INITIAL_LIVES
    /\ score_value' = 0
    /\ bullet_state' = "ready"
    /\ bullet_y' = BULLET_START_Y
    /\ enemies' = create_enemies
    /\ bunkers' = create_bunkers

\* KEYDOWN K_r
KeyDownR ==
    /\ pc = "events"
    /\ IF CanReset
       THEN /\ game_over' = FALSE
            /\ reset_game_state
       ELSE UNCHANGED <<game_over, player_x, player_y, player_x_change, lives,
                        score_value, bullet_state, bullet_y, enemies, bunkers>>
    /\ UNCHANGED <<pc, bullet_x, bullet_rect>>

\* ------------------------------------------------------------ the simulation
\* faulty variant: the movement is not clamped
StepPlayer_NoClamp(x, dx) == x + dx

\* player_x += player_x_change; clamp
StepPlayer(x, dx) == clamp(x + dx, 0, SCREEN_WIDTH - player_width)

\* first loop over enemies: x += x_change; rect follows
MoveEnemy(e) ==
    [e EXCEPT !.x = e.x + e.x_change,
              !.rect = SetTopLeft(e.rect, e.x + e.x_change, e.y)]

MoveEnemies(es) == [i \in 1..Len(es) |-> MoveEnemy(es[i])]

\* move_down: some enemy is at or beyond a side wall after the move
TouchedWall(es) ==
    \E i \in 1..Len(es) : es[i].x <= 0 \/ es[i].x >= SCREEN_WIDTH - enemy_width

\* faulty variant: the enemies drop without reversing
DropEnemy_NoReverse(e) ==
    [e EXCEPT !.y = e.y + ENEMY_DROP_DISTANCE,
              !.rect = SetTopLeft(e.rect, e.x, e.y + ENEMY_DROP_DISTANCE)]

\* faulty variant: the enemies reverse without dropping
DropEnemy_NoDrop(e) ==
    [e EXCEPT !.x_change = e.x_change * (-1)]

\* second loop over enemies: reverse, drop, rect follows
DropEnemy(e) ==
    [e EXCEPT !.x_change = e.x_change * (-1),
              !.y = e.y + ENEMY_DROP_DISTANCE,
              !.rect = SetTopLeft(e.rect, e.x, e.y + ENEMY_DROP_DISTANCE)]

\* faulty variant: only the enemies that are at a wall reverse and drop
DropEnemies_OnlyAtWall(es) ==
    [i \in 1..Len(es) |->
        IF es[i].x <= 0 \/ es[i].x >= SCREEN_WIDTH - enemy_width
        THEN DropEnemy(es[i]) ELSE es[i]]

DropEnemies(es) == [i \in 1..Len(es) |-> DropEnemy(es[i])]

\* faulty variant: only the first enemy of the list is tested against the floor
FloorBreach_FirstOnly(es) == Len(es) > 0 /\ es[1].y > ENEMY_GAME_OVER_Y

\* the floor test inside the second loop
FloorBreach(es) == \E i \in 1..Len(es) : es[i].y > ENEMY_GAME_OVER_Y

\* the enemy movement block: the formation after it and the game_over it sets
StepFormation(es) ==
    LET moved == MoveEnemies(es)
    IN  IF TouchedWall(moved)
        THEN [enemies |-> DropEnemies(moved), breach |-> FloorBreach(DropEnemies(moved))]
        ELSE [enemies |-> moved, breach |-> FALSE]

\* faulty variant: a bullet at exactly y = 0 is still in flight
TopExit_Strict(by) == by < 0

\* faulty variant: the top of the screen is never tested
TopExit_Never(by) == FALSE

\* bullet_y <= 0
TopExit(by) == by <= 0

\* index of the first enemy of the list whose rect collides with the bullet, 0 if none
FirstEnemyHit(es, rect) ==
    IF \E i \in 1..Len(es) : is_collision(es[i].rect, rect)
    THEN CHOOSE i \in 1..Len(es) :
            /\ is_collision(es[i].rect, rect)
            /\ \A j \in 1..(i - 1) : ~is_collision(es[j].rect, rect)
    ELSE 0

\* faulty variant: the removed slot is filled with the last element
ListRemove_SwapLast(es, e) ==
    LET k == CHOOSE i \in 1..Len(es) : es[i] = e /\ \A j \in 1..(i - 1) : es[j] # e
    IN  [i \in 1..(Len(es) - 1) |-> IF i = k THEN es[Len(es)] ELSE es[i]]

\* list.remove(e): drops the first element equal to e
ListRemove(es, e) ==
    LET k == CHOOSE i \in 1..Len(es) : es[i] = e /\ \A j \in 1..(i - 1) : es[j] # e
    IN  [i \in 1..(Len(es) - 1) |-> IF i < k THEN es[i] ELSE es[i + 1]]

\* the bullet-vs-enemies loop: it stops at the first collision
BulletVsEnemies(es, rect) ==
    LET i == FirstEnemyHit(es, rect)
    IN  IF i = 0
        THEN [enemies |-> es, hit |-> FALSE, gained |-> 0]
        ELSE [enemies |-> ListRemove(es, es[i]), hit |-> TRUE, gained |-> es[i].score]

\* faulty variant: a destroyed bunker still absorbs bullets
BunkerBlocks_IgnoreHealth(b, rect) == is_collision(b.rect, rect)

\* faulty variant: `>=` for `>` in the health test
BunkerBlocks_ZeroAlive(b, rect) == b.health >= 0 /\ is_collision(b.rect, rect)

\* whether a bunker absorbs the bullet
BunkerBlocks(b, rect) == b.health > 0 /\ is_collision(b.rect, rect)

\* the bullet-vs-bunkers loop: it stops at the first live bunker hit
BulletVsBunkers(bs, rect) ==
    IF \E i \in 1..Len(bs) : BunkerBlocks(bs[i], rect)
    THEN LET k == CHOOSE i \in 1..Len(bs) :
                    /\ BunkerBlocks(bs[i], rect)
                    /\ \A j \in 1..(i - 1) : ~BunkerBlocks(bs[j], rect)
         IN  [bunkers |-> [bs EXCEPT ![k].health = bs[k].health - 1], hit |-> TRUE]
    ELSE [bunkers |-> bs, hit |-> FALSE]

\* faulty variant: an empty collection is left empty
Respawn_Never(es) == es

\* the win-condition check: an empty collection is refilled
Respawn(es) == IF Len(es) = 0 THEN create_enemies ELSE es

\* faulty variant: an enemy hit does not put the bullet back to "ready"
BulletStateAfter_EnemyHitFlies(exit, ehit, bhit) ==
    IF exit \/ bhit THEN "ready" ELSE "fire"

\* bullet_state at the end of the bullet block: "ready" after the top exit, an
\* enemy hit or a bunker hit
BulletStateAfter(exit, ehit, bhit) ==
    IF exit \/ ehit \/ bhit THEN "ready" ELSE "fire"

\* the body of `if not game_over:` (the drawing calls change no state)
SimulatePlaying ==
    LET f     == StepFormation(enemies)
        by1   == bullet_y - BULLET_SPEED
        rect1 == SetTopLeft(bullet_rect, bullet_x, by1)
        ve    == BulletVsEnemies(f.enemies, rect1)
        vb    == BulletVsBunkers(bunkers, rect1)
    IN  /\ player_x' = StepPlayer(player_x, player_x_change)
        /\ game_over' = f.breach
        /\ IF bullet_state = "fire"
           THEN /\ bullet_rect' = rect1
                /\ bullet_state' = BulletStateAfter(TopExit(by1), ve.hit, vb.hit)
                /\ bullet_y' = IF ve.hit \/ vb.hit THEN BULLET_START_Y ELSE by1
                /\ score_value' = score_value + ve.gained
                /\ enemies' = Respawn(ve.enemies)
                /\ bunkers' = vb.bunkers
           ELSE /\ enemies' = Respawn(f.enemies)
                /\ UNCHANGED <<bullet_rect, bullet_state, bullet_y, score_value,
                               bunkers>>
        /\ UNCHANGED <<player_y, player_x_change, lives, bullet_x>>

\* the rest of the loop body after the event loop
Simulate ==
    /\ pc = "events"
    /\ pc' = "frame"
    /\ IF ~game_over
       THEN SimulatePlaying
       ELSE UNCHANGED <<game_over, player_x, player_y, player_x_change,
                        lives, score_value, bullet_x, bullet_y, bullet_state,
                        bullet_rect, enemies, bunkers>>

Next ==
    \/ validate_game_state
    \/ KeyDownLeft
    \/ KeyDownRight
    \/ KeyUpMove
    \/ KeyDownSpace
    \/ KeyDownR
    \/ Simulate

Spec == Init /\ [][Next]_vars

\* ======================================================== properties checked
\* a step that is the simulation part of one loop iteration
TickStep == pc = "events" /\ pc' = "frame"

\* a step of the event loop
EventStep == pc = "events" /\ pc' = "events"

\* the step in which a reset is carried out
ResetStep == game_over /\ ~game_over'

\* the number of enemies a tick took out of the collection (an emptied collection
\* is refilled before the tick ends, and a full grid is longer than any rest)
Removed ==
    IF Len(enemies') < Len(enemies) THEN Len(enemies) - Len(enemies')
    ELSE IF Len(enemies') > Len(enemies) THEN Len(enemies)
    ELSE 0

\* C1: in every tick, right after validate_game_state has run, score_value is in
\* [MIN_SCORE, MAX_SCORE] and lives is in [0, PLAYER_MAX_LIVES].
C1_ValidatedBounds ==
    pc = "events" =>
        /\ MIN_SCORE <= score_value /\ score_value <= MAX_SCORE
        /\ 0 <= lives /\ lives <= PLAYER_MAX_LIVES

\* a validated state whose score had run past MAX_SCORE (hits add multiples of 10)
C1_Witness ==
    pc = "events" /\ score_value = MAX_SCORE /\ score_value % 10 # 0

\* C2: at the end of every tick player_x is within [0, SCREEN_WIDTH - player_width],
\* in Playing and in GameOver, whatever intents came before.
C2_PlayerInBounds ==
    pc = "frame" => 0 <= player_x /\ player_x <= SCREEN_WIDTH - player_width

\* the player pushed against the right wall, still moving right
C2_Witness ==
    /\ pc = "frame"
    /\ player_x = SCREEN_WIDTH - player_width
    /\ player_x_change = PLAYER_SPEED
    /\ player_x + player_x_change > SCREEN_WIDTH - player_width

\* C3: a tick removes at most one enemy, only with a bullet in flight, and the bullet
\* is "ready" at the end of that tick (so one flight removes at most one enemy);
\* outside the ticks the collection changes only by a reset.
C3_OneEnemyPerFlight ==
    [][/\ TickStep =>
            /\ Removed <= 1
            /\ Removed = 1 => bullet_state = "fire" /\ bullet_state' = "ready"
       /\ ~TickStep => enemies' = enemies \/ ResetStep]_vars

\* the end of a tick that took the first enemy out of a full grid
C3_Witness ==
    /\ pc = "frame"
    /\ Len(enemies) = ENEMY_ROWS * ENEMY_COLS - 1
    /\ bullet_state = "ready"
    /\ bullet_y = BULLET_START_Y
    /\ score_value > 0

\* the enemy of the old collection that the i-th enemy of the new one was, when the
\* tick took out the k-th (k = 0: none)
OldIndex(i, k) == IF k = 0 \/ i < k THEN i ELSE i + 1

\* every enemy left after the tick has reversed and dropped
AllReversed(k) ==
    \A i \in 1..Len(enemies') :
        /\ enemies'[i].x_change = -enemies[OldIndex(i, k)].x_change
        /\ enemies'[i].y = enemies[OldIndex(i, k)].y + ENEMY_DROP_DISTANCE

\* no enemy left after the tick has changed direction or height
NoneReversed(k) ==
    \A i \in 1..Len(enemies') :
        /\ enemies'[i].x_change = enemies[OldIndex(i, k)].x_change
        /\ enemies'[i].y = enemies[OldIndex(i, k)].y

\* C4: formation reversal is atomic within one tick: in a Playing tick either every
\* live enemy has its x_change negated and its y increased by ENEMY_DROP_DISTANCE, or
\* none has its x_change or y changed; in the tick that ends the round by a floor
\* breach every enemy has still reversed and dropped.
C4_AtomicReversal ==
    [][TickStep /\ ~game_over /\ Len(enemies') <= Len(enemies) =>
          \E k \in 0..Len(enemies) :
              /\ Len(enemies') = Len(enemies) - (IF k = 0 THEN 0 ELSE 1)
              /\ \A i \in 1..Len(enemies') :
                    enemies'[i].row = enemies[OldIndex(i, k)].row
              /\ AllReversed(k) \/ NoneReversed(k)
              /\ game_over' => AllReversed(k)]_vars

\* the end of a breach tick: the two columns were at different distances from the
\* wall, one enemy is below the floor line and another is not, both moving left
C4_Witness ==
    /\ pc = "frame"
    /\ game_over
    /\ \E i, j \in 1..Len(enemies) :
          /\ enemies[i].x # enemies[j].x
          /\ enemies[i].y > ENEMY_GAME_OVER_Y
          /\ enemies[j].y <= ENEMY_GAME_OVER_Y
          /\ enemies[i].x_change = enemies[j].x_change

\* some enemy is at or beyond a side wall once it has moved
WallReached ==
    \E i \in 1..Len(enemies) :
        \/ enemies[i].x + enemies[i].x_change <= 0
        \/ enemies[i].x + enemies[i].x_change >= SCREEN_WIDTH - enemy_width

\* C5: if in a Playing tick the formation drops and some enemy's y then exceeds
\* ENEMY_GAME_OVER_Y, the phase is GameOver at the end of that tick, and GameOver
\* is left only by processing a reset intent.
C5_FloorBreachEndsRound ==
    [][/\ (/\ TickStep /\ ~game_over /\ WallReached
           /\ \E i \in 1..Len(enemies) :
                 enemies[i].y + ENEMY_DROP_DISTANCE > ENEMY_GAME_OVER_Y)
          => game_over'
       /\ ResetStep => KeyDownR /\ EventStep]_vars

\* GameOver kept over a later iteration: validated again, an enemy below the line,
\* and the bottom row was not the one that crossed it first
C5_Witness ==
    /\ pc = "events"
    /\ game_over
    /\ \E i \in 1..Len(enemies) : enemies[i].y > ENEMY_GAME_OVER_Y
    /\ enemies[1].y <= ENEMY_GAME_OVER_Y

\* C6: every bunker's health is in [0, BUNKER_HEALTH] in every reachable state, and
\* within a round (any step but a reset) no bunker's health increases.
C6_BunkerHealth ==
    /\ [](\A i \in 1..Len(bunkers) :
             0 <= bunkers[i].health /\ bunkers[i].health <= BUNKER_HEALTH)
    /\ [][~ResetStep =>
             /\ Len(bunkers') = Len(bunkers)
             /\ \A i \in 1..Len(bunkers) : bunkers'[i].health <= bunkers[i].health]_vars

\* a bullet in flight inside a bunker that has no health left
C6_Witness ==
    \E i \in 1..Len(bunkers) :
        /\ bunkers[i].health = 0
        /\ bullet_state = "fire"
        /\ is_collision(bunkers[i].rect, bullet_rect)

\* the tier score of the row an enemy was created in
TierScore(row) == IF row = 0 THEN 30 ELSE IF row \in {1, 2} THEN 20 ELSE 10

\* where the formation stands when the bullet is tested in this tick
DropsNow == WallReached

EnemyXNow(i) == enemies[i].x + enemies[i].x_change

EnemyYNow(i) == enemies[i].y + (IF DropsNow THEN ENEMY_DROP_DISTANCE ELSE 0)

\* the bullet, one step further up, overlaps the i-th enemy where it stands now
BulletOverlaps(i) ==
    /\ bullet_x < EnemyXNow(i) + enemy_width
    /\ EnemyXNow(i) < bullet_x + bullet_width
    /\ bullet_y - BULLET_SPEED < EnemyYNow(i) + enemy_height
    /\ EnemyYNow(i) < bullet_y - BULLET_SPEED + bullet_height

\* the first enemy in stored order that the bullet overlaps, 0 if there is none
FirstOverlapped ==
    IF \E i \in 1..Len(enemies) : BulletOverlaps(i)
    THEN CHOOSE i \in 1..Len(enemies) :
            BulletOverlaps(i) /\ \A j \in 1..(i - 1) : ~BulletOverlaps(j)
    ELSE 0

\* a grid as create_enemies lays it out
IsFreshGrid(es) ==
    /\ Len(es) = ENEMY_ROWS * ENEMY_COLS
    /\ \A r \in 0..(ENEMY_ROWS - 1) : \A c \in 0..(ENEMY_COLS - 1) :
          LET e == es[r * ENEMY_COLS + c + 1]
          IN  /\ e.x = ENEMY_START_X + c * ENEMY_X_GAP
              /\ e.y = ENEMY_START_Y + r * ENEMY_Y_GAP
              /\ e.x_change = ENEMY_SPEED
              /\ e.rect = [x |-> e.x, y |-> e.y, w |-> enemy_width, h |-> enemy_height]
              /\ e.row = r
              /\ e.score = TierScore(r)

\* C7: whenever a flying bullet's rectangle overlaps an enemy in a tick, exactly
\* that enemy is removed, every other enemy stays, and the score grows in that tick
\* by that enemy's tier score: 30 for row 0, 20 for rows 1-2, 10 for rows 3-4.
C7_HitRemovesAndScores ==
    [][TickStep /\ ~game_over /\ bullet_state = "fire" /\ FirstOverlapped # 0 =>
          LET k == FirstOverlapped
          IN  /\ score_value' = score_value + TierScore(enemies[k].row)
              /\ \/ /\ Len(enemies) > 1
                    /\ Len(enemies') = Len(enemies) - 1
                    /\ \A i \in 1..Len(enemies') :
                          /\ enemies'[i].row = enemies[OldIndex(i, k)].row
                          /\ enemies'[i].x = EnemyXNow(OldIndex(i, k))
                          /\ enemies'[i].y = EnemyYNow(OldIndex(i, k))
                 \/ /\ Len(enemies) = 1
                    /\ IsFreshGrid(enemies')]_vars

\* the end of a tick in the first wave in which an enemy of every tier is gone
C7_Witness ==
    /\ pc = "frame"
    /\ ~game_over
    /\ Len(enemies) > 0
    /\ Cardinality({i \in 1..Len(enemies) : enemies[i].row = 0}) < ENEMY_COLS
    /\ Cardinality({i \in 1..Len(enemies) : enemies[i].row \in {1, 2}}) < 2 * ENEMY_COLS
    /\ Cardinality({i \in 1..Len(enemies) : enemies[i].row \in {3, 4}}) < 2 * ENEMY_COLS

\* C8: in a tick in which the flying bullet's y becomes <= 0, the bullet is "ready"
\* at the end of the tick, the score is unchanged, no enemy is removed and no bunker
\* health changes.
C8_TopExit ==
    [][TickStep /\ ~game_over /\ bullet_state = "fire"
         /\ bullet_y - BULLET_SPEED <= 0 =>
          /\ bullet_state' = "ready"
          /\ score_value' = score_value
          /\ bunkers' = bunkers
          /\ Len(enemies') = Len(enemies)
          /\ \A i \in 1..Len(enemies) : enemies'[i].row = enemies[i].row]_vars

\* a bullet that left the top: "ready", and still where it left
C8_Witness ==
    /\ pc = "frame"
    /\ bullet_state = "ready"
    /\ bullet_y <= 0
    /\ bullet_rect.y = bullet_y

\* C9: when the last live enemy is removed in a Playing tick, a fresh full grid
\* (ENEMY_ROWS x ENEMY_COLS, start positions, x_change = +ENEMY_SPEED) is in place at
\* the end of the tick; lives and bunkers are as before, the score has only the
\* hit's points added, the player has only moved by its intent, and the phase is
\* GameOver only if the floor was breached in that tick.
C9_WaveRespawn ==
    [][TickStep /\ ~game_over /\ Len(enemies) = 1 /\ bullet_state = "fire"
         /\ BulletOverlaps(1) =>
          /\ IsFreshGrid(enemies')
          /\ lives' = lives
          /\ bunkers' = bunkers
          /\ score_value' = score_value + TierScore(enemies[1].row)
          /\ player_x' = clamp(player_x + player_x_change, 0, SCREEN_WIDTH - player_width)
          /\ player_y' = player_y
          /\ game_over' =>
                DropsNow /\ enemies[1].y + ENEMY_DROP_DISTANCE > ENEMY_GAME_OVER_Y]_vars

\* the end of a Playing tick with a grid at its start positions and points on the
\* board: only a respawn gives this (a reset zeroes the score, a grid moves every
\* Playing tick)
C9_Witness ==
    /\ pc = "frame"
    /\ ~game_over
    /\ IsFreshGrid(enemies)
    /\ score_value > 0

\* C10: an intent that is invalid for the phase changes nothing.  While Playing no
\* step of the event loop (a reset intent among them) changes the phase, the player
\* position, the enemies, the bunkers, the score or the lives, and the bullet
\* changes only by being fired; while GameOver a step of the event loop that is not
\* the reset (a fire intent among them) changes nothing but the movement intent.
C10_InvalidIntentIgnored ==
    [][/\ EventStep /\ ~game_over =>
            /\ UNCHANGED <<game_over, player_x, player_y, lives, score_value,
                           enemies, bunkers>>
            /\ \/ UNCHANGED <<bullet_state, bullet_x, bullet_y, bullet_rect>>
               \/ bullet_state = "ready" /\ bullet_state' = "fire"
       /\ EventStep /\ game_over /\ game_over' =>
            UNCHANGED <<player_x, player_y, lives, score_value, enemies, bunkers,
                        bullet_state, bullet_x, bullet_y, bullet_rect>>]_vars

\* in the event loop of a GameOver frame with the bullet "ready": only the phase
\* keeps a fire intent from acting
C10_Witness ==
    /\ pc = "events"
    /\ game_over
    /\ bullet_state = "ready"
    /\ score_value > 0

\* C11: a reset carried out in GameOver (the only step that leaves GameOver) puts
\* the phase to Playing with the player at (PLAYER_START_X, PLAYER_START_Y), velocity
\* 0, lives PLAYER_INITIAL_LIVES, score 0, the bullet "ready", a fresh full grid at
\* the start positions and every bunker at BUNKER_HEALTH, whatever the state was.
C11_ResetRestores ==
    [][ResetStep =>
          /\ ~game_over'
          /\ player_x' = PLAYER_START_X /\ player_y' = PLAYER_START_Y
          /\ player_x_change' = 0
          /\ lives' = PLAYER_INITIAL_LIVES
          /\ score_value' = 0
          /\ bullet_state' = "ready"
          /\ IsFreshGrid(enemies')
          /\ Len(bunkers') = BUNKER_COUNT
          /\ \A i \in 1..Len(bunkers') : bunkers'[i].health = BUNKER_HEALTH]_vars

\* right after a reset: the event loop of a Playing frame with a fresh board and the
\* player at the start, while the bullet's rectangle still lies where the last
\* round's bullet hit a bunker that is whole again
C11_Witness ==
    /\ pc = "events"
    /\ ~game_over
    /\ score_value = 0
    /\ IsFreshGrid(enemies)
    /\ player_x = PLAYER_START_X
    /\ bullet_state = "ready"
    /\ \E i \in 1..Len(bunkers) :
          bunkers[i].health = BUNKER_HEALTH /\ is_collision(bunkers[i].rect, bullet_rect)

\* twice the offset of the bullet's centre from the player's centre
CentreOffset2(bx, px) == (2 * bx + bullet_width) - (2 * px + player_width)

\* C12: the bullet goes from "ready" to "fire" only in the event loop, only while
\* Playing, and is then at the player's current y, horizontally centred on the
\* player's current x (to the pixel); a step of the event loop taken with the
\* bullet in flight, other than a reset, changes neither the bullet's state nor its
\* position, so a bullet in flight is never launched again.
C12_FireOnlyWhenReady ==
    [][/\ bullet_state = "ready" /\ bullet_state' = "fire" =>
            /\ EventStep
            /\ ~game_over
            /\ bullet_y' = player_y
            /\ CentreOffset2(bullet_x', player_x) \in {-1, 0, 1}
            /\ bullet_rect' = [x |-> bullet_x', y |-> bullet_y',
                               w |-> bullet_width, h |-> bullet_height]
       /\ EventStep /\ bullet_state = "fire" /\ ~ResetStep =>
            UNCHANGED <<bullet_state, bullet_x, bullet_y, bullet_rect>>]_vars

\* in the event loop, a bullet in flight above the bunkers while the player has
\* moved away from the column it was fired in: a fire intent now would move it
C12_Witness ==
    /\ pc = "events"
    /\ ~game_over
    /\ bullet_state = "fire"
    /\ bullet_y < BUNKER_Y_POSITION
    /\ bullet_rect.y = bullet_y
    /\ CentreOffset2(bullet_x, player_x) \notin {-1, 0, 1}

\* C13: within a round the score never becomes smaller from one state to the next,
\* the per-tick validation pass included; only a reset starts a new round.
C13_ScoreMonotone ==
    [][~ResetStep => score_value' >= score_value]_vars

\* C14: in every reachable state all live enemies have the same x_change.
C14_SharedDirection ==
    \A i, j \in 1..Len(enemies) : enemies[i].x_change = enemies[j].x_change

\* a thinned-out formation of several rows that has reversed and moves left
C14_Witness ==
    /\ Len(enemies) < ENEMY_ROWS * ENEMY_COLS
    /\ \E i, j \in 1..Len(enemies) :
          /\ enemies[i].row # enemies[j].row
          /\ enemies[i].x # enemies[j].x
          /\ enemies[i].x_change = -ENEMY_SPEED
          /\ enemies[j].x_change = -ENEMY_SPEED

\* the bullet's rectangle once it has advanced in this tick
BulletRectNow == [bullet_rect EXCEPT !.x = bullet_x, !.y = bullet_y - BULLET_SPEED]

\* C15: a bunker with health 0 is not collidable: in a tick in which the flying
\* bullet overlaps some bunker but none that has health left, no bunker's health
\* changes and the bullet flies on; in every reachable state there are BUNKER_COUNT
\* bunkers, each where it was built.
C15_DeadBunkerNotCollidable ==
    /\ [](/\ Len(bunkers) = BUNKER_COUNT
          /\ \A i \in 1..Len(bunkers) : bunkers[i].rect = create_bunkers[i].rect)
    /\ [][/\ TickStep /\ ~game_over /\ bullet_state = "fire"
          /\ \E i \in 1..Len(bunkers) : is_collision(bunkers[i].rect, BulletRectNow)
          /\ \A i \in 1..Len(bunkers) :
                is_collision(bunkers[i].rect, BulletRectNow) => bunkers[i].health = 0
          => /\ bunkers' = bunkers
             /\ bullet_state' = "fire"
             /\ bullet_y' = bullet_y - BULLET_SPEED
             /\ score_value' = score_value]_vars

\* a bullet in flight that has passed through a bunker with health 0 and is now
\* right above it
C15_Witness ==
    /\ pc = "frame"
    /\ bullet_state = "fire"
    /\ \E i \in 1..Len(bunkers) :
          /\ bunkers[i].health = 0
          /\ bullet_rect.x < bunkers[i].rect.x + bunkers[i].rect.w
          /\ bunkers[i].rect.x < bullet_rect.x + bullet_rect.w
          /\ bullet_rect.y + bullet_rect.h <= bunkers[i].rect.y
          /\ bullet_rect.y + bullet_rect.h + BULLET_SPEED > bunkers[i].rect.y

\* C16: in a tick in which the bullet removes an enemy no bunker's health is
\* decremented: one bullet never both destroys an enemy and damages a bunker.
C16_EnemyHitSparesBunkers ==
    [][TickStep /\ ~game_over /\ bullet_state = "fire" /\ FirstOverlapped # 0 =>
          bunkers' = bunkers]_vars

\* the end of a tick in which the bullet took an enemy that stood on or below the
\* floor line, the lowest an enemy gets, with a damaged bunker still standing: the
\* bullet's rectangle lies where it hit, clear of every bunker
C16_Witness ==
    /\ pc = "frame"
    /\ bullet_state = "ready"
    /\ bullet_y = BULLET_START_Y
    /\ score_value > 0
    /\ bullet_rect.y + bullet_rect.h > ENEMY_GAME_OVER_Y
    /\ bullet_rect.y < ENEMY_GAME_OVER_Y + ENEMY_DROP_DISTANCE + enemy_height
    /\ \A i \in 1..Len(bunkers) : ~is_collision(bunkers[i].rect, bullet_rect)
    /\ \E i \in 1..Len(bunkers) :
          0 < bunkers[i].health /\ bunkers[i].health < BUNKER_HEALTH

\* C17: at the end of every tick, the tick of a hit included, score_value is at
\* most MAX_SCORE.
C17_ScoreClampedAtTickEnd ==
    pc = "frame" => score_value <= MAX_SCORE

\* C18: while the phase is GameOver the simulation is frozen: no step of a tick
\* taken in GameOver (validation, an intent, the simulation step), other than a
\* reset, changes an enemy, the player's position, the bullet's state or position,
\* a bunker or the score, so they are at the end of the tick what they were at its
\* start.
C18_GameOverFrozen ==
    [][game_over /\ ~ResetStep =>
          UNCHANGED <<enemies, player_x, player_y, bullet_state, bullet_x, bullet_y,
                      bullet_rect, bunkers, score_value>>]_vars

\* the i-th enemy where the formation's move of this tick puts it
EnemyNow(i) ==
    [enemies[i] EXCEPT
        !.x = EnemyXNow(i),
        !.y = EnemyYNow(i),
        !.x_change = IF DropsNow THEN -enemies[i].x_change ELSE enemies[i].x_change,
        !.rect = [x |-> EnemyXNow(i), y |-> EnemyYNow(i),
                  w |-> enemy_width, h |-> enemy_height]]

C20_LivesPassive ==
    lives = PLAYER_INITIAL_LIVES

\* a round that a floor breach has ended after an enemy and a bunker were hit in
\* it: the bullet's rectangle lies where the last flight ended, below the enemies
C20_Witness ==
    /\ game_over
    /\ lives = PLAYER_INITIAL_LIVES
    /\ score_value > 0
    /\ \E i \in 1..Len(bunkers) : bunkers[i].health < BUNKER_HEALTH
    /\ bullet_state = "ready"
    /\ bullet_rect.y > ENEMY_GAME_OVER_Y + ENEMY_DROP_DISTANCE + enemy_height

\* C21: the formation never drops on two consecutive ticks.  At every tick boundary
\* every live enemy's x is within [0, SCREEN_WIDTH - enemy_width]; a Playing tick in
\* which the formation reversed and dropped leaves it where its next move touches
\* no wall; and between two ticks the formation is as the tick left it, or a fresh
\* grid, whose first move touches no wall either.
C21_NoConsecutiveDrops ==
    /\ [](pc = "frame" =>
            \A i \in 1..Len(enemies) :
                0 <= enemies[i].x /\ enemies[i].x <= SCREEN_WIDTH - enemy_width)
    /\ [][/\ TickStep /\ ~game_over /\ DropsNow => ~WallReached'
          /\ ~TickStep => enemies' = enemies \/ ~WallReached']_vars

\* the end of a Playing tick in which a thinned-out formation dropped at the left
\* wall: an enemy at x = 0, now heading right
C21_Witness ==
    /\ pc = "frame"
    /\ ~game_over
    /\ Len(enemies) < ENEMY_ROWS * ENEMY_COLS
    /\ \E i \in 1..Len(enemies) :
          /\ enemies[i].x = 0
          /\ enemies[i].x_change = ENEMY_SPEED
          /\ enemies[i].y > ENEMY_START_Y + (enemies[i].row * ENEMY_Y_GAP)

\* the Playing ticks a bullet in flight has flown since it was fired
TicksFlown == (PLAYER_START_Y - bullet_y) \div BULLET_SPEED

\* C22: a bullet in flight comes back within PLAYER_START_Y / BULLET_SPEED Playing
\* ticks.  It is always a whole number of steps above the row it was fired from and
\* below the top of the screen, so it has flown fewer ticks than that; each Playing
\* tick either ends the flight or takes it up by exactly BULLET_SPEED; and no other
\* step moves a bullet in flight (it stays in flight for good only in GameOver).
C22_BulletComesBack ==
    /\ [](bullet_state = "fire" =>
            /\ 0 < bullet_y /\ bullet_y <= PLAYER_START_Y
            /\ (PLAYER_START_Y - bullet_y) % BULLET_SPEED = 0
            /\ TicksFlown * BULLET_SPEED < PLAYER_START_Y)
    /\ [][/\ TickStep /\ ~game_over /\ bullet_state = "fire" =>
                \/ bullet_state' = "ready"
                \/ bullet_state' = "fire" /\ bullet_y' = bullet_y - BULLET_SPEED
          /\ ~(TickStep /\ ~game_over) /\ bullet_state = "fire" =>
                \/ bullet_state' = "fire" /\ bullet_y' = bullet_y
                \/ ResetStep]_vars

\* the event loop of a Playing frame before the last tick of the longest flight: the
\* bullet is one step from the top
C22_Witness ==
    /\ pc = "events"
    /\ ~game_over
    /\ bullet_state = "fire"
    /\ bullet_y <= BULLET_SPEED
    /\ bullet_rect.y = bullet_y

\* the loop while no bullet hits an enemy: the same steps, with only the ticks that
\* take no enemy out of the collection
NextNoHit ==
    \/ validate_game_state
    \/ KeyDownLeft
    \/ KeyDownRight
    \/ KeyUpMove
    \/ KeyDownSpace
    \/ KeyDownR
    \/ Simulate /\ Removed = 0

\* the loop while no bullet hits an enemy; an iteration that has begun runs its
\* validation pass (the top of the `while running` body)
SpecNoHit ==
    /\ Init
    /\ [][NextNoHit]_vars
    /\ WF_vars(validate_game_state)

\* C23: in a run in which the ticks keep executing (the loop comes back to its top
\* again and again) and no enemy is ever removed, the formation keeps sweeping and
\* dropping and a Playing phase always leads to GameOver.
C23_RoundEnds ==
    []<>(pc = "frame") => (~game_over ~> game_over)

\* GameOver reached with the whole grid alive below the floor line, while the
\* player moved, fired and wore a bunker down
C23_Witness ==
    /\ pc = "frame"
    /\ game_over
    /\ Len(enemies) = ENEMY_ROWS * ENEMY_COLS
    /\ score_value = 0
    /\ \E i \in 1..Len(enemies) : enemies[i].y > ENEMY_GAME_OVER_Y
    /\ \E i \in 1..Len(bunkers) : bunkers[i].health < BUNKER_HEALTH

====
